---- MODULE Spec2Model ----
(***************************************************************************)
(* The order repository (package order, RedisRepository) over a Redis     *)
(* keyspace: one string key "order:<id>" per order holding its JSON        *)
(* encoding, and the set "orders" holding the keys of the orders.          *)
(*                                                                         *)
(* The repository keeps no state of its own: callers share only the       *)
(* keyspace.  Every method except FindAll makes at most one round trip to  *)
(* the server (Insert sends its queued commands as one MULTI/EXEC batch),  *)
(* so a call of it by any caller is one atomic action.  FindAll makes two  *)
(* round trips (SSCAN, then MGET) and is two actions, between which the    *)
(* calls of other callers interleave; FindAll writes nothing, so one       *)
(* FindAll in flight stands for any number of them.                        *)
(***************************************************************************)
EXTENDS Integers, Sequences, FiniteSets, TLC

\* ---------------------------------------------------------------- bounds
MaxOrderID == 2
NumCustomers == 2
MaxSize == 2

OrderIDs == 1..MaxOrderID

\* model.Order: the numeric OrderID and an opaque payload field
OrderValues == [OrderID : OrderIDs, CustomerID : 1..NumCustomers]
ZeroOrder == [OrderID |-> 0, CustomerID |-> 0]

\* The outcome of one round trip: the server answers, the request never
\* arrives, or the request is executed and its reply never arrives.
Net == {"ok", "lost_request", "lost_reply"}

\* The same for a command that only reads, where a lost reply and a lost
\* request leave the same keyspace and the same error.
ReadNet == {"ok", "lost_request"}

\* ---------------------------------------------------------------- errors
\* An error is its chain of messages, outermost first; nil is the empty chain.
NoErr == <<>>
RedisNil == <<"redis: nil">>
ErrNotExist == <<"order does not exist">>
ErrNet == <<"i/o timeout">>
ErrSyntax == <<"invalid character">>
ErrPanic == <<"panic: interface conversion: interface {} is nil, not string">>

Wrap(msg, err) == <<msg>> \o err

ErrorsIs(err, target) == \E i \in 1..Len(err) : SubSeq(err, i, Len(err)) = target

\* ---------------------------------------------------------------- encoding
\* the key formatted without its argument: one key for every order
orderIDKeyNoID(orderID) == "order:" \o "%!d(MISSING)"

orderIDKey(orderID) == "order:" \o ToString(orderID)

EmptyBlob == [wellformed |-> FALSE, members |-> <<>>]

\* json.Marshal: an object of named members
Marshal(order) ==
    [data |-> [wellformed |-> TRUE,
               members |-> << <<"order_id", order.OrderID>>,
                              <<"customer_id", order.CustomerID>> >>],
     err |-> NoErr]

Member(blob, name) ==
    IF \E i \in 1..Len(blob.members) : blob.members[i][1] = name
    THEN LET i == CHOOSE i \in 1..Len(blob.members) : blob.members[i][1] = name
         IN blob.members[i][2]
    ELSE 0

\* json.Unmarshal into a zero model.Order: members are found by name
Unmarshal(blob) ==
    IF ~blob.wellformed
    THEN [order |-> ZeroOrder, err |-> ErrSyntax]
    ELSE [order |-> [OrderID |-> Member(blob, "order_id"),
                     CustomerID |-> Member(blob, "customer_id")],
          err |-> NoErr]

\* ---------------------------------------------------------------- state
VARIABLES
    db,     \* the Redis keyspace: kv (string keys) and orders (the set "orders")
    pc,     \* the FindAll in flight: "idle", or "mget" between its two round trips
    scan,   \* the keys and cursor the SSCAN of the FindAll in flight returned
    last,   \* the most recently returned repository call
    pager   \* a caller paging through FindAll: its page, the orders seen

vars == <<db, pc, scan, last, pager>>

EmptyDb == [kv |-> <<>>, orders |-> {}]

NoScan == [keys |-> <<>>, cursor |-> 0]

NoPager == [offset |-> 0, size |-> 0, seen |-> {}, done |-> FALSE]

\* A returned call: its method, its id or order argument, its results
\* (err, and order or orders and cursor; ordersNil tells a nil Orders slice
\* from an empty one), the keyspace it was made on (pre), and the number of
\* commands left queued on a transaction that was neither executed nor
\* discarded (open).
NoCall == [op |-> "none", id |-> 0, arg |-> ZeroOrder,
           err |-> NoErr, order |-> ZeroOrder,
           orders |-> <<>>, ordersNil |-> TRUE, cursor |-> 0,
           open |-> 0, pre |-> EmptyDb]

\* ---------------------------------------------------------------- server commands
Put(kv, key, data) == [k \in DOMAIN kv \cup {key} |-> IF k = key THEN data ELSE kv[k]]

Drop(kv, key) == [k \in DOMAIN kv \ {key} |-> kv[k]]

\* SETNX written as a plain SET: an existing key is overwritten
SetNXOverwrite(d, key, data) ==
    [db |-> [d EXCEPT !.kv = Put(d.kv, key, data)],
     val |-> key \notin DOMAIN d.kv, err |-> NoErr]

\* SETNX key data: 1 when the key was created, 0 when it exists
SetNX(d, key, data) ==
    IF key \in DOMAIN d.kv
    THEN [db |-> d, val |-> FALSE, err |-> NoErr]
    ELSE [db |-> [d EXCEPT !.kv = Put(d.kv, key, data)], val |-> TRUE, err |-> NoErr]

\* SET XX written as a plain SET: a missing key is created
SetXXAsSet(d, key, data) ==
    [db |-> [d EXCEPT !.kv = Put(d.kv, key, data)], val |-> TRUE, err |-> NoErr]

\* SET XX written as SET NX: an existing key keeps its value
SetXXAsNX(d, key, data) ==
    IF key \in DOMAIN d.kv
    THEN [db |-> d, val |-> FALSE, err |-> NoErr]
    ELSE [db |-> [d EXCEPT !.kv = Put(d.kv, key, data)], val |-> TRUE, err |-> NoErr]

\* SET key data XX read as a BoolCmd: the nil reply for a missing key is
\* converted to false with no error
SetXX(d, key, data) ==
    IF key \in DOMAIN d.kv
    THEN [db |-> [d EXCEPT !.kv = Put(d.kv, key, data)], val |-> TRUE, err |-> NoErr]
    ELSE [db |-> d, val |-> FALSE, err |-> NoErr]

\* GET written as GETDEL: the key is removed as it is read
GetDel(d, key) ==
    IF key \in DOMAIN d.kv
    THEN [db |-> [d EXCEPT !.kv = Drop(d.kv, key)], val |-> d.kv[key], err |-> NoErr]
    ELSE [db |-> d, val |-> EmptyBlob, err |-> RedisNil]

\* GET key: the value, or the nil reply
Get(d, key) ==
    IF key \in DOMAIN d.kv
    THEN [db |-> d, val |-> d.kv[key], err |-> NoErr]
    ELSE [db |-> d, val |-> EmptyBlob, err |-> RedisNil]

\* DEL key: an integer reply, the number of keys removed
Del(d, key) ==
    [db |-> [d EXCEPT !.kv = Drop(d.kv, key)],
     val |-> key \in DOMAIN d.kv, err |-> NoErr]

\* SADD orders member
SAdd(d, member) ==
    [db |-> [d EXCEPT !.orders = @ \cup {member}],
     val |-> member \notin d.orders, err |-> NoErr]

\* SREM orders member
SRem(d, member) ==
    [db |-> [d EXCEPT !.orders = @ \ {member}],
     val |-> member \in d.orders, err |-> NoErr]

\* MGET keys...: one reply per key, nil for a missing key
MGet(d, keys) ==
    [i \in 1..Len(keys) |->
        IF keys[i] \in DOMAIN d.kv
        THEN [isNil |-> FALSE, str |-> d.kv[keys[i]]]
        ELSE [isNil |-> TRUE, str |-> EmptyBlob]]

\* SSCAN orders cursor MATCH * [COUNT count] (go-redis sends COUNT only when
\* count > 0): the members in the slots cursor+1..nxt, and the cursor to
\* resume from (0 when the scan is complete).  COUNT is a hint to the
\* server, which chooses how far the step goes (nxt): a step may return
\* fewer members than count, none at all, or more.
SScan(d, cursor, count, nxt) ==
    LET IsMember(k) == k \in d.orders
        slots == [i \in 1..(nxt - cursor) |-> orderIDKey(cursor + i)]
    IN [keys |-> SelectSeq(slots, IsMember),
        cursor |-> IF nxt >= MaxOrderID THEN 0 ELSE nxt]

\* the replies of the two read commands of FindAll, with the keyspace they leave
SScanCmd(d, cursor, count, nxt) ==
    [db |-> d, val |-> SScan(d, cursor, count, nxt), err |-> NoErr]

MGetCmd(d, keys) == [db |-> d, val |-> MGet(d, keys), err |-> NoErr]

\* ---------------------------------------------------------------- transactions
\* Pipeline.Process: the command is appended to the queue; nothing is sent
Queue(cmds, cmd) == [cmds |-> Append(cmds, cmd), err |-> NoErr]

Apply(d, cmd) ==
    CASE cmd.name = "SETNX" -> SetNX(d, cmd.key, cmd.data)
      [] cmd.name = "DEL" -> Del(d, cmd.key)
      [] cmd.name = "SADD" -> SAdd(d, cmd.member)
      [] cmd.name = "SREM" -> SRem(d, cmd.member)

RECURSIVE Run(_, _)
Run(d, cmds) ==
    IF cmds = <<>> THEN d
    ELSE Run(Apply(d, Head(cmds)).db, Tail(cmds))

\* Exec of a plain Pipeline (no MULTI/EXEC): a connection lost part-way has
\* run only the first queued command
ExecNotAtomic(d, cmds, net) ==
    [db |-> IF net = "lost_request" THEN d
            ELSE IF net = "lost_reply" THEN Run(d, SubSeq(cmds, 1, 1))
            ELSE Run(d, cmds),
     err |-> IF net = "ok" THEN NoErr ELSE ErrNet]

\* Pipeline.Exec of a TxPipeline: MULTI, the queued commands, EXEC, in one
\* round trip; the server runs all of them or none
Exec(d, cmds, net) ==
    [db |-> IF net = "lost_request" THEN d ELSE Run(d, cmds),
     err |-> IF net = "ok" THEN NoErr ELSE ErrNet]

\* a single command sent on the client
Send(d, reply, net) ==
    [db |-> IF net = "lost_request" THEN d ELSE reply.db,
     val |-> reply.val,
     err |-> IF net = "ok" THEN reply.err ELSE ErrNet]

\* ---------------------------------------------------------------- repository
Init ==
    /\ db = EmptyDb
    /\ pc = "idle"
    /\ scan = NoScan
    /\ last = NoCall
    /\ pager = NoPager

InsertCmds(key, data) ==
    LET q1 == Queue(<<>>, [name |-> "SETNX", key |-> key, data |-> data, member |-> ""])
        q2 == Queue(q1.cmds, [name |-> "SADD", key |-> "orders", data |-> EmptyBlob, member |-> key])
    IN [cmds |-> q2.cmds, err1 |-> q1.err, err2 |-> q2.err]

Insert(order, net) ==
    /\ LET m == Marshal(order)
           key == orderIDKey(order.OrderID)
           q == InsertCmds(key, m.data)
           ex == Exec(db, q.cmds, net)
           call == [NoCall EXCEPT !.op = "Insert",
                                  !.id = order.OrderID, !.arg = order, !.pre = db]
       IN IF m.err # NoErr
          THEN /\ db' = db
               /\ last' = [call EXCEPT !.err = Wrap("failed to encode order", m.err)]
          ELSE IF q.err1 # NoErr
          THEN /\ db' = db
               /\ last' = [call EXCEPT !.err = Wrap("failed to insert order", q.err1)]
          ELSE IF q.err2 # NoErr
          THEN /\ db' = db
               /\ last' = [call EXCEPT !.err = Wrap("failed to add orders set", q.err2)]
          ELSE IF ex.err # NoErr
          THEN /\ db' = ex.db
               /\ last' = [call EXCEPT !.err = Wrap("failed to execute transaction", ex.err)]
          ELSE /\ db' = ex.db
               /\ last' = call
    /\ UNCHANGED <<pc, scan>>

\* FindByID wrapping the not-found error like the other failures
FindByIDResultWrapped(d, id, net) ==
    LET key == orderIDKey(id)
        r == Send(d, Get(d, key), net)
        u == Unmarshal(r.val)
    IN IF r.err # NoErr
       THEN [order |-> ZeroOrder, err |-> Wrap("failed to get order",
                        IF ErrorsIs(r.err, RedisNil) THEN ErrNotExist ELSE r.err)]
       ELSE IF u.err # NoErr
       THEN [order |-> ZeroOrder, err |-> Wrap("failed to decode order", u.err)]
       ELSE [order |-> u.order, err |-> NoErr]

\* what FindByID returns when called on keyspace d
FindByIDResult(d, id, net) ==
    LET key == orderIDKey(id)
        r == Send(d, Get(d, key), net)
        u == Unmarshal(r.val)
    IN IF ErrorsIs(r.err, RedisNil)
       THEN [order |-> ZeroOrder, err |-> ErrNotExist]
       ELSE IF r.err # NoErr
       THEN [order |-> ZeroOrder, err |-> Wrap("failed to get order", r.err)]
       ELSE IF u.err # NoErr
       THEN [order |-> ZeroOrder, err |-> Wrap("failed to decode order", u.err)]
       ELSE [order |-> u.order, err |-> NoErr]

FindByID(id, net) ==
    /\ LET res == FindByIDResult(db, id, net)
       IN last' = [NoCall EXCEPT !.op = "FindByID", !.id = id, !.pre = db,
                                 !.order = res.order, !.err = res.err]
    /\ db' = Send(db, Get(db, orderIDKey(id)), net).db
    /\ UNCHANGED <<pc, scan>>

DeleteCmds(key) ==
    LET q1 == Queue(<<>>, [name |-> "DEL", key |-> key, data |-> EmptyBlob, member |-> ""])
        q2 == Queue(q1.cmds, [name |-> "SREM", key |-> "orders", data |-> EmptyBlob, member |-> key])
    IN [cmds1 |-> q1.cmds, cmds |-> q2.cmds, err1 |-> q1.err, err2 |-> q2.err]

\* The commands are queued on the transaction and the method returns: the
\* transaction is never executed, so nothing reaches the server.
DeleteByID(id) ==
    /\ LET key == orderIDKey(id)
           q == DeleteCmds(key)
           call == [NoCall EXCEPT !.op = "DeleteByID", !.id = id, !.pre = db]
       IN IF ErrorsIs(q.err1, RedisNil)
          THEN last' = [call EXCEPT !.err = ErrNotExist]
          ELSE IF q.err1 # NoErr
          THEN last' = [call EXCEPT !.err = Wrap("failed to get order", q.err1)]
          ELSE IF q.err2 # NoErr
          THEN last' = [call EXCEPT !.err = Wrap("failed to remove orders set", q.err2),
                                    !.open = Len(q.cmds)]
          ELSE last' = [call EXCEPT !.open = Len(q.cmds)]
    /\ UNCHANGED <<db, pc, scan>>

Update(order, net) ==
    /\ LET m == Marshal(order)
           key == orderIDKey(order.OrderID)
           r == Send(db, SetXX(db, key, m.data), net)
           call == [NoCall EXCEPT !.op = "Update",
                                  !.id = order.OrderID, !.arg = order, !.pre = db]
       IN IF m.err # NoErr
          THEN /\ db' = db
               /\ last' = [call EXCEPT !.err = Wrap("failed to encode order", m.err)]
          ELSE /\ db' = r.db
               /\ IF ErrorsIs(r.err, RedisNil)
                  THEN last' = [call EXCEPT !.err = ErrNotExist]
                  ELSE IF r.err # NoErr
                  THEN last' = [call EXCEPT !.err = Wrap("failed to update order", r.err)]
                  ELSE last' = call
    /\ UNCHANGED <<pc, scan>>

\* FindAll without its test for an empty scan: MGET is sent whatever was scanned
FindAllScanNoEmptyCheck(size, offset, nxt, net) ==
    /\ pc = "idle"
    /\ LET r == Send(db, SScanCmd(db, offset, size, nxt), net)
           call == [NoCall EXCEPT !.op = "FindAll", !.pre = db]
       IN /\ db' = r.db
          /\ IF r.err # NoErr
             THEN /\ last' = [call EXCEPT !.err = Wrap("failed to get order IDs", r.err)]
                  /\ UNCHANGED <<pc, scan>>
             ELSE /\ pc' = "mget"
                  /\ scan' = [keys |-> r.val.keys, cursor |-> r.val.cursor]
                  /\ last' = last

\* FindAll up to the result of SSCAN
FindAllScan(size, offset, nxt, net) ==
    /\ pc = "idle"
    /\ LET r == Send(db, SScanCmd(db, offset, size, nxt), net)
           call == [NoCall EXCEPT !.op = "FindAll", !.pre = db]
       IN /\ db' = r.db
          /\ IF r.err # NoErr
             THEN /\ last' = [call EXCEPT !.err = Wrap("failed to get order IDs", r.err)]
                  /\ UNCHANGED <<pc, scan>>
             ELSE IF Len(r.val.keys) = 0
             THEN /\ last' = [call EXCEPT !.ordersNil = FALSE]
                  /\ UNCHANGED <<pc, scan>>
             ELSE /\ pc' = "mget"
                  /\ scan' = [keys |-> r.val.keys, cursor |-> r.val.cursor]
                  /\ last' = last

RECURSIVE DecodeReversed(_, _)
\* the loop storing each decoded order at the wrong end of the list
DecodeReversed(xs, i) ==
    IF i > Len(xs) THEN [orders |-> <<>>, err |-> NoErr]
    ELSE IF xs[i].isNil THEN [orders |-> <<>>, err |-> ErrPanic]
    ELSE LET u == Unmarshal(xs[i].str)
             rest == DecodeReversed(xs, i + 1)
         IN IF u.err # NoErr
            THEN [orders |-> <<>>, err |-> Wrap("failed to decode json", u.err)]
            ELSE IF rest.err # NoErr THEN rest
            ELSE [orders |-> rest.orders \o <<u.order>>, err |-> NoErr]

RECURSIVE Decode(_, _)
\* the loop over the MGET replies: xs[i .. Len(xs)] decoded in order, stopping
\* at the first reply that is not a string or does not parse
Decode(xs, i) ==
    IF i > Len(xs) THEN [orders |-> <<>>, err |-> NoErr]
    ELSE IF xs[i].isNil THEN [orders |-> <<>>, err |-> ErrPanic]
    ELSE LET u == Unmarshal(xs[i].str)
             rest == Decode(xs, i + 1)
         IN IF u.err # NoErr
            THEN [orders |-> <<>>, err |-> Wrap("failed to decode json", u.err)]
            ELSE IF rest.err # NoErr THEN rest
            ELSE [orders |-> <<u.order>> \o rest.orders, err |-> NoErr]

\* FindAll from MGET to its return
FindAllFetch(net) ==
    /\ pc = "mget"
    /\ LET r == Send(db, MGetCmd(db, scan.keys), net)
           dec == Decode(r.val, 1)
           call == [NoCall EXCEPT !.op = "FindAll", !.pre = db]
       IN /\ db' = r.db
          /\ IF r.err # NoErr
             THEN last' = [call EXCEPT !.err = Wrap("failed to get orders", r.err)]
             ELSE IF dec.err # NoErr
             THEN last' = [call EXCEPT !.err = dec.err]
             ELSE last' = [call EXCEPT !.orders = dec.orders, !.ordersNil = FALSE,
                                       !.cursor = scan.cursor]
    /\ pc' = "idle"
    /\ scan' = NoScan

\* a call of a repository method by any caller; the paging caller is idle
Next ==
    \/ \E o \in OrderValues, net \in Net : Insert(o, net) /\ UNCHANGED pager
    \/ \E id \in OrderIDs, net \in ReadNet : FindByID(id, net) /\ UNCHANGED pager
    \/ \E id \in OrderIDs : DeleteByID(id) /\ UNCHANGED pager
    \/ \E o \in OrderValues, net \in Net : Update(o, net) /\ UNCHANGED pager
    \/ \E size \in 0..MaxSize, offset \in 0..(MaxOrderID - 1),
          nxt \in 1..MaxOrderID, net \in ReadNet :
            nxt > offset /\ FindAllScan(size, offset, nxt, net) /\ UNCHANGED pager
    \/ \E net \in ReadNet : FindAllFetch(net) /\ UNCHANGED pager

Spec == Init /\ [][Next]_vars

\* ---------------------------------------------------------------- paging
\* The keyspaces the repository's own calls produce: some orders stored, each
\* under its key and in the index set.
DbOf(f) ==
    LET ids == {i \in OrderIDs : f[i] # 0}
        keys == {orderIDKey(i) : i \in ids}
    IN [kv |-> [k \in keys |->
                 LET i == CHOOSE i \in ids : orderIDKey(i) = k
                 IN Marshal([OrderID |-> i, CustomerID |-> f[i]]).data],
        orders |-> keys]

StoredDbs == {DbOf(f) : f \in [OrderIDs -> 0..NumCustomers]}

\* The paging caller after a FindAll returned res: it retries the page after
\* an error, and otherwise passes the returned Cursor as its next Offset
\* until a Cursor of 0 is returned.
Turn(p, res) ==
    IF res.err # NoErr THEN p
    ELSE [offset |-> res.cursor,
          size |-> p.size,
          seen |-> p.seen \cup {res.orders[i] : i \in 1..Len(res.orders)},
          done |-> res.cursor = 0]

PageScan(size, nxt, net) ==
    /\ ~pager.done
    /\ nxt > pager.offset
    /\ FindAllScan(size, pager.offset, nxt, net)
    /\ LET asked == [pager EXCEPT !.size = size]
       IN pager' = IF pc' = "mget" THEN asked ELSE Turn(asked, last')

PageFetch(net) ==
    /\ FindAllFetch(net)
    /\ pager' = Turn(pager, last')

\* one caller pages through a stored keyspace that nobody mutates
InitPaging ==
    /\ db \in StoredDbs
    /\ pc = "idle"
    /\ scan = NoScan
    /\ last = NoCall
    /\ pager = NoPager

NextPaging ==
    \/ \E size \in 0..MaxSize, nxt \in 1..MaxOrderID, net \in ReadNet :
            PageScan(size, nxt, net)
    \/ \E net \in ReadNet : PageFetch(net)

SpecPaging == InitPaging /\ [][NextPaging]_vars

\* ---------------------------------------------------------------- any store
\* The repository is handed a client of a server it does not own: the
\* keyspace it starts on may hold index members whose key is gone (evicted,
\* or deleted by another client) and values that are not JSON.
AnyDbOf(f, members) ==
    LET ids == {i \in OrderIDs : f[i] # 0}
        keys == {orderIDKey(i) : i \in ids}
    IN [kv |-> [k \in keys |->
                 LET i == CHOOSE i \in ids : orderIDKey(i) = k
                 IN IF f[i] > NumCustomers THEN EmptyBlob
                    ELSE Marshal([OrderID |-> i, CustomerID |-> f[i]]).data],
        orders |-> {orderIDKey(i) : i \in members}]

AnyDbs ==
    {AnyDbOf(f, members) : f \in [OrderIDs -> 0..(NumCustomers + 1)],
                           members \in SUBSET OrderIDs}

InitStore ==
    /\ db \in AnyDbs
    /\ pc = "idle"
    /\ scan = NoScan
    /\ last = NoCall
    /\ pager = NoPager

SpecStore == InitStore /\ [][Next]_vars

\* ---------------------------------------------------------------- properties
\* The key of the most recently returned call, whether it had a primary
\* entry when the call was made, and whether the call's round trip failed.
LastKey == orderIDKey(last.id)
ExistedBefore == LastKey \in DOMAIN last.pre.kv
StoreFailed == ErrorsIs(last.err, ErrNet)

\* the keys a FindAll started on keyspace d can scan, whatever its page
Scannable(d) ==
    UNION {{SScan(d, offset, size, nxt).keys[i] :
                i \in 1..Len(SScan(d, offset, size, nxt).keys)} :
             offset \in 0..(MaxOrderID - 1), size \in 0..MaxSize, nxt \in 1..MaxOrderID}

\* C1: after DeleteByID(id) returns success for an id whose order existed,
\* the primary entry and the index membership are gone: FindByID(id) fails
\* with ErrNotExist and no FindAll scan returns the key.
C1_DeleteRemovesOrder ==
    (last.op = "DeleteByID" /\ last.err = NoErr /\ ExistedBefore)
        => /\ LastKey \notin DOMAIN db.kv
           /\ LastKey \notin db.orders
           /\ FindByIDResult(db, last.id, "ok").err = ErrNotExist
           /\ LastKey \notin Scannable(db)

\* C2: Insert with an OrderID whose primary key already exists returns an error.
C2_InsertExistingFails ==
    (last.op = "Insert" /\ ExistedBefore) => last.err # NoErr

\* C3: Insert never changes the value stored under a primary key that
\* already exists.
C3_InsertNeverOverwrites ==
    (last.op = "Insert" /\ ExistedBefore)
        => /\ LastKey \in DOMAIN db.kv
           /\ db.kv[LastKey] = last.pre.kv[LastKey]

C3_Witness ==
    /\ last.op = "Insert"
    /\ ExistedBefore
    /\ last.err = NoErr
    /\ Marshal(last.arg).data # last.pre.kv[LastKey]

\* C4: whenever Insert(o) returns without error, a FindByID(o.OrderID) that
\* follows it directly returns an order equal to o.
C4_InsertThenFind ==
    (last.op = "Insert" /\ last.err = NoErr)
        => FindByIDResult(db, last.id, "ok") = [order |-> last.arg, err |-> NoErr]

\* C5: in every reachable state the index set "orders" holds exactly the
\* keys that have a primary entry.
C5_IndexMatchesPrimary == db.orders = DOMAIN db.kv

C5_Witness ==
    /\ Cardinality(db.orders) = MaxOrderID
    /\ last.op = "Insert"
    /\ StoreFailed
    /\ ~ExistedBefore
    /\ LastKey \in db.orders
    /\ pc = "mget"

\* C6: DeleteByID(id) for an id that has no primary entry returns ErrNotExist.
C6_DeleteAbsentNotFound ==
    (last.op = "DeleteByID" /\ ~ExistedBefore) => last.err = ErrNotExist

\* C7: Update(o) for an OrderID that has no primary entry returns ErrNotExist
\* rather than success (or the store's error when the round trip failed).
C7_UpdateAbsentNotFound ==
    (last.op = "Update" /\ ~ExistedBefore)
        => /\ last.err # NoErr
           /\ (~StoreFailed => last.err = ErrNotExist)

\* C8: Update(o) for an OrderID that has no primary entry leaves the
\* keyspace as it was: neither the primary key nor an index member is created.
C8_UpdateAbsentCreatesNothing ==
    (last.op = "Update" /\ ~ExistedBefore)
        => /\ db = last.pre
           /\ LastKey \notin DOMAIN db.kv
           /\ LastKey \notin db.orders

C8_Witness ==
    /\ last.op = "Update"
    /\ ~ExistedBefore
    /\ ~StoreFailed
    /\ last.pre.kv # <<>>

\* C9: after Update(o) returns success for an OrderID whose order existed, a
\* FindByID(o.OrderID) that follows it directly returns an order equal to o.
C9_UpdateThenFind ==
    (last.op = "Update" /\ last.err = NoErr /\ ExistedBefore)
        => FindByIDResult(db, last.id, "ok") = [order |-> last.arg, err |-> NoErr]

C9_Witness ==
    /\ last.op = "Update"
    /\ last.err = NoErr
    /\ ExistedBefore
    /\ Marshal(last.arg).data # last.pre.kv[LastKey]

\* C10: FindByID(id) returns ErrNotExist itself, not wrapped, exactly when
\* the primary key is absent (and the store answered), and returns the
\* stored order with no error when the key is present and its value decodes.
C10_FindByIDNotFoundIffAbsent ==
    last.op = "FindByID"
        => /\ (last.err = ErrNotExist => ~ExistedBefore)
           /\ ((~ExistedBefore /\ ~StoreFailed) => last.err = ErrNotExist)
           /\ ((ExistedBefore /\ ~StoreFailed /\ last.pre.kv[LastKey].wellformed)
                => /\ last.err = NoErr
                   /\ Marshal(last.order).data = last.pre.kv[LastKey])

C10_Witness ==
    /\ last.op = "FindByID"
    /\ last.err = ErrNotExist
    /\ last.pre.kv # <<>>

\* C11: with no concurrent mutations, paging through FindAll from Offset 0,
\* passing each returned Cursor as the next Offset until a Cursor of 0 is
\* returned, observes every order of the index set, whatever the scan steps
\* of the store return.
C11_PagingObservesAll ==
    pager.done
        => \A k \in db.orders : \E o \in pager.seen : Marshal(o).data = db.kv[k]

\* C12: FindAll on an empty index set returns an empty, non-nil order list,
\* Cursor 0 and no error, for every page Size and Offset.
C12_EmptyIndexEmptyPage ==
    [][\A size \in 0..MaxSize, offset \in 0..(MaxOrderID - 1), nxt \in 1..MaxOrderID :
         (nxt > offset /\ db.orders = {} /\ FindAllScan(size, offset, nxt, "ok"))
            => /\ pc' = "idle"
               /\ last'.op = "FindAll"
               /\ last'.err = NoErr
               /\ last'.orders = <<>>
               /\ ~last'.ordersNil
               /\ last'.cursor = 0]_vars

C12_Witness ==
    /\ last.op = "FindAll"
    /\ last.pre.orders = {}
    /\ last.err = NoErr
    /\ last.orders = <<>>
    /\ ~last.ordersNil

\* C13: FindAll with page Size 0 returns an empty order list, Cursor 0 and no
\* error, also when the index set is not empty.
C13_SizeZeroEmptyPage ==
    [][\A offset \in 0..(MaxOrderID - 1), nxt \in 1..MaxOrderID :
         (nxt > offset /\ FindAllScan(0, offset, nxt, "ok"))
            => /\ pc' = "idle"
               /\ last'.op = "FindAll"
               /\ last'.err = NoErr
               /\ last'.orders = <<>>
               /\ last'.cursor = 0]_vars

\* C14: of several Insert calls for one OrderID that was absent beforehand,
\* at most one reports success (the calls take effect one at a time, in the
\* order of their transactions): an Insert that follows a successful Insert
\* of the same OrderID reports an error.
C14_AtMostOneInsertSucceeds ==
    [][\A o \in OrderValues, net \in Net :
         (/\ last.op = "Insert"
          /\ last.err = NoErr
          /\ ~ExistedBefore
          /\ last.id = o.OrderID
          /\ Insert(o, net))
            => last'.err # NoErr]_vars

\* C15: a FindAll whose scan returned an index member with no primary entry
\* returns an error: it does not crash, and returns no partial list and no
\* zero-valued order.
C15_DanglingMemberIsError ==
    [][\A net \in ReadNet :
         (/\ \E i \in 1..Len(scan.keys) : scan.keys[i] \notin DOMAIN db.kv
          /\ FindAllFetch(net))
            => /\ last'.op = "FindAll"
               /\ last'.err # NoErr
               /\ last'.err # ErrPanic
               /\ last'.orders = <<>>]_vars

\* C16: every call that opens a transaction (Insert, DeleteByID) has executed
\* or discarded it when it returns: no queued command is left behind.
C16_TransactionClosedOnReturn ==
    last.op \in {"Insert", "DeleteByID"} => last.open = 0

\* C17: when FindAll succeeds after a non-empty scan, it returns exactly one
\* order per scanned key, in the scan's order, the i-th being the decoded
\* value stored under the i-th scanned key, and the Cursor is the cursor the
\* scan returned.
C17_OrdersFollowScan ==
    [][\A net \in ReadNet :
         (FindAllFetch(net) /\ last'.err = NoErr)
            => /\ Len(last'.orders) = Len(scan.keys)
               /\ \A i \in 1..Len(scan.keys) :
                    /\ scan.keys[i] \in DOMAIN db.kv
                    /\ Unmarshal(db.kv[scan.keys[i]]).err = NoErr
                    /\ last'.orders[i] = Unmarshal(db.kv[scan.keys[i]]).order
               /\ last'.cursor = scan.cursor]_vars

C17_Witness ==
    /\ last.op = "FindAll"
    /\ last.err = NoErr
    /\ Len(last.orders) = 2
    /\ last.orders[1] # last.orders[2]

\* C18: for page Size > 0, one FindAll call returns at most Size orders,
\* however many members the index set has.
C18_AtMostSizeOrders ==
    (last.op = "FindAll" /\ last.err = NoErr /\ pager.size > 0)
        => Len(last.orders) <= pager.size

\* C19: FindByID and FindAll are read-only: whatever they return, they leave
\* every primary entry and the index set as they were.  (A returned read
\* holds the keyspace it was called on; the step of FindAll that returns
\* nothing yet, from SSCAN to MGET, is judged by the read whose return it
\* follows.)
C19_ReadsChangeNothing ==
    last.op \in {"FindByID", "FindAll"} => db = last.pre

C19_Witness ==
    /\ last.op = "FindByID"
    /\ last.err = NoErr
    /\ pc = "mget"
    /\ Cardinality(DOMAIN db.kv) = MaxOrderID

\* C20: Insert, Update and DeleteByID for one OrderID never change the
\* value, the existence or the index membership of another OrderID, and
\* Update changes neither the index set nor the set of existing keys.
C20_IsolatedPerOrderID ==
    last.op \in {"Insert", "Update", "DeleteByID"}
        => /\ \A y \in OrderIDs \ {last.id} :
                LET k == orderIDKey(y)
                IN /\ k \in DOMAIN db.kv <=> k \in DOMAIN last.pre.kv
                   /\ k \in DOMAIN db.kv => db.kv[k] = last.pre.kv[k]
                   /\ k \in db.orders <=> k \in last.pre.orders
           /\ last.op = "Update"
                => /\ db.orders = last.pre.orders
                   /\ DOMAIN db.kv = DOMAIN last.pre.kv

C20_Witness ==
    /\ last.op = "Update"
    /\ last.err = NoErr
    /\ db # last.pre
    /\ \E y \in OrderIDs \ {last.id} : orderIDKey(y) \in DOMAIN db.kv
====
